---- MODULE Spec2Model ----
(***************************************************************************)
(* kvenv: resolution of secrets into a process environment, the merge,     *)
(* mask and persistence of that environment (ProcessEnv), and the launch   *)
(* of a child process in it (run-in, run-with).                            *)
(*                                                                         *)
(* Strings that the program only compares and copies (variable names and   *)
(* values of the environment) are TLA+ strings.  A list of pairs           *)
(* Vec<(String, String)> is a sequence of <<name, value>> tuples.          *)
(***************************************************************************)
EXTENDS Integers, Sequences, FiniteSets, TLC

(***************************************************************************)
(* Bounds of the model.                                                    *)
(***************************************************************************)
MaxOsVars == 2
MaxKv == 2
MaxMasked == 2

Names == {"A", "B"}
OsValues == {"e1", "e2"}
KvValues == {"k1", "k2"}

SeqsUpTo(S, n) == UNION {[1..k -> S] : k \in 0..n}

\* std::env::vars() yields the environment block as it is: a list of pairs
\* in which a name may occur more than once.
OsLists == SeqsUpTo(Names \X OsValues, MaxOsVars)
KvLists == SeqsUpTo(Names \X KvValues, MaxKv)
MaskLists == SeqsUpTo(Names, MaxMasked)

VARIABLES
    cmd,        \* the subcommand the running process executes
    pc,         \* its position
    os_vars,    \* the OS environment of the running process
    proc_env,   \* the ProcessEnv value the process holds, or NoEnv
    env_file,   \* the content of the cache artifact on disk
    env_map,    \* the HashMap returned by into_env, once computed
    made_map,   \* history: the mode of the ProcessEnv as ProcessEnv::new made
                \* it, and its into_env at that moment
    os_at_make, \* history: os_vars when the held ProcessEnv was constructed
    cleanup,    \* run-with: the --cleanup flag
    file_open,  \* run-with: a handle on the artifact is open
    child,      \* the child process: its state, exit status and environment
    wait_status, \* the ExitStatus that wait returned to the launcher
    ret,        \* what run_in / run_with returned to main
    launcher,   \* the termination of the launcher process itself
    remove_tried, \* history: fs::remove_file was called on the artifact
    cfg,        \* resolution: secret name or prefix, snapshot flag, mask list
    listed,     \* prefix mode: the identifiers the backend listed
    secrets,    \* prefix mode: the leaf names that start with the prefix
    env_names,  \* prefix mode: the variable names derived from them
    fetches,    \* prefix mode: the per-secret fetches handed to try_join_all
    arrivals,   \* history: the fetches in the order in which they completed
    payload,    \* single mode: the value of the secret, as fetched
    dl,         \* the result of download_json / download_prefixed
    fn,         \* a conversion called on its own: its name
    arg,        \* its argument
    arg2,       \* convert_env_name: the prefix
    out,        \* what it returned
    cache_in,   \* cache: the output options, and the files there at the start
    disk,       \* cache: what each path of the file system holds
    handle,     \* cache: the OutputFile that get_output_file returned
    printed     \* cache: the path written to stdout

envVars == <<cmd, pc, os_vars, proc_env, env_file, env_map, made_map, os_at_make, cleanup>>

\* what every step of the launcher after the merge leaves alone
envData == <<cmd, os_vars, proc_env, env_file, env_map, made_map, os_at_make, cleanup>>

runVars == <<file_open, child, wait_status, ret, launcher, remove_tried>>

resVars == <<cfg, listed, secrets, env_names, fetches, arrivals, payload, dl>>

pureVars == <<fn, arg, arg2, out>>

cacheVars == <<cache_in, disk, handle, printed>>

vars == <<envVars, runVars, resVars, pureVars, cacheVars>>

(***************************************************************************)
(* HashMap<String, String>: a function from the set of its keys.           *)
(***************************************************************************)
EmptyMap == [k \in {} |-> k]

MapInsert(m, k, v) == [x \in (DOMAIN m) \cup {k} |-> IF x = k THEN v ELSE m[x]]

MapRemove(m, k) == [x \in (DOMAIN m) \ {k} |-> m[x]]

\* HashMap::extend / FromIterator: the pairs are inserted in list order.
RECURSIVE MapExtend(_, _)
MapExtend(m, l) ==
    IF l = <<>> THEN m
    ELSE MapExtend(MapInsert(m, Head(l)[1], Head(l)[2]), Tail(l))

RECURSIVE MapRemoveAll(_, _)
MapRemoveAll(m, l) ==
    IF l = <<>> THEN m
    ELSE MapRemoveAll(MapRemove(m, Head(l)), Tail(l))

(***************************************************************************)
(* enum OsEnv { Persisted(Vec), Fresh(Vec) } and struct ProcessEnv.        *)
(***************************************************************************)
OsEnv(tag, l) == [tag |-> tag, vars |-> l]

NoEnv == [t |-> "none"]

ProcessEnv(from_env, from_kv, masked) ==
    [t |-> "env", from_env |-> from_env, from_kv |-> from_kv, masked |-> masked]

\* OsEnv::new reading the environment for a snapshot only
OsEnv_new_lazy(persisted, os) ==
    IF persisted THEN OsEnv("Persisted", os) ELSE OsEnv("Fresh", <<>>)

\* OsEnv::new ignoring the flag
OsEnv_new_always_fresh(persisted, os) == OsEnv("Fresh", os)

\* OsEnv::new: the environment is read here, whatever the mode.
OsEnv_new(persisted, os) ==
    IF persisted THEN OsEnv("Persisted", os) ELSE OsEnv("Fresh", os)

\* OsEnv::empty yielding an empty list
OsEnv_empty_list(os) == OsEnv("Fresh", <<>>)

\* OsEnv::empty, the serde default of a missing from_env field.
OsEnv_empty(os) == OsEnv("Fresh", os)

\* should_not_persist skipping the field in both modes
should_not_persist_any(e) == e.tag \in {"Fresh", "Persisted"}

should_not_persist(e) == e.tag = "Fresh"

\* ProcessEnv::new keeping only the first entry of every name
ProcessEnv_new_dedup(from_kv, masked, snapshot_env, os) ==
    LET Kept == {i \in 1..Len(from_kv) : \A j \in 1..(i - 1) : from_kv[j][1] # from_kv[i][1]}
        Nth(k) == CHOOSE i \in Kept : Cardinality({j \in Kept : j < i}) = k - 1
    IN ProcessEnv(OsEnv_new(snapshot_env, os),
                  [k \in 1..Cardinality(Kept) |-> from_kv[Nth(k)]],
                  masked)

ProcessEnv_new(from_kv, masked, snapshot_env, os) ==
    ProcessEnv(OsEnv_new(snapshot_env, os), from_kv, masked)

\* into_env masking before the backend entries are overlaid
into_env_mask_first(e) ==
    MapExtend(MapRemoveAll(MapExtend(EmptyMap, e.from_env.vars), e.masked), e.from_kv)

\* ProcessEnv::into_env
into_env(e) ==
    MapRemoveAll(MapExtend(MapExtend(EmptyMap, e.from_env.vars), e.from_kv), e.masked)

(***************************************************************************)
(* The artifact: the JSON document serde_json writes for a ProcessEnv.     *)
(* A JSON value is [t |-> kind, v |-> content]; an object's content is the *)
(* sequence of its <<key, value>> members in document order.               *)
(***************************************************************************)
JStr(s) == [t |-> "str", v |-> s]
JArr(a) == [t |-> "arr", v |-> a]
JObj(m) == [t |-> "obj", v |-> m]

NoFile == [t |-> "missing", v |-> <<>>]
\* a file whose bytes are not JSON text
BadFile == [t |-> "bad", v |-> <<>>]

PairToJson(p) == JArr(<<JStr(p[1]), JStr(p[2])>>)
VarsToJson(l) == JArr([i \in 1..Len(l) |-> PairToJson(l[i])])
NamesToJson(l) == JArr([i \in 1..Len(l) |-> JStr(l[i])])
\* an enum variant with a payload is written externally tagged
OsEnvToJson(e) == JObj(<< <<e.tag, VarsToJson(e.vars)>> >>)

\* ProcessEnv::to_writer: the derived Serialize, with skip_serializing_if
to_writer(e) ==
    JObj((IF should_not_persist(e.from_env)
            THEN <<>>
            ELSE << <<"from_env", OsEnvToJson(e.from_env)>> >>)
         \o << <<"from_kv", VarsToJson(e.from_kv)>>,
               <<"masked", NamesToJson(e.masked)>> >>)

HasField(doc, k) == \E i \in 1..Len(doc.v) : doc.v[i][1] = k
Field(doc, k) == doc.v[CHOOSE i \in 1..Len(doc.v) : doc.v[i][1] = k][2]

IsStrJson(j) == j.t = "str"
IsPairJson(j) == j.t = "arr" /\ Len(j.v) = 2 /\ IsStrJson(j.v[1]) /\ IsStrJson(j.v[2])
IsVarsJson(j) == j.t = "arr" /\ \A i \in 1..Len(j.v) : IsPairJson(j.v[i])
IsNamesJson(j) == j.t = "arr" /\ \A i \in 1..Len(j.v) : IsStrJson(j.v[i])
IsOsEnvJson(j) ==
    /\ j.t = "obj"
    /\ Len(j.v) = 1
    /\ j.v[1][1] \in {"Persisted", "Fresh"}
    /\ IsVarsJson(j.v[1][2])

\* a reader that takes the pairs of a list last to first
JsonToVars_reversed(j) == [i \in 1..Len(j.v) |-> <<j.v[Len(j.v) + 1 - i].v[1].v, j.v[Len(j.v) + 1 - i].v[2].v>>]

JsonToPair(j) == <<j.v[1].v, j.v[2].v>>
JsonToVars(j) == [i \in 1..Len(j.v) |-> JsonToPair(j.v[i])]
JsonToNames(j) == [i \in 1..Len(j.v) |-> j.v[i].v]
JsonToOsEnv(j) == OsEnv(j.v[1][1], JsonToVars(j.v[1][2]))

\* what the derived Deserialize accepts
Deserializable(doc) ==
    /\ doc.t = "obj"
    /\ HasField(doc, "from_env") => IsOsEnvJson(Field(doc, "from_env"))
    /\ HasField(doc, "from_kv") /\ IsVarsJson(Field(doc, "from_kv"))
    /\ HasField(doc, "masked") /\ IsNamesJson(Field(doc, "masked"))

\* a File that stays open when load_env returns
drop_file_leaks(open) == open

\* load_env returns: its local `file` goes out of scope, the handle is closed
drop_file(open) == FALSE

\* from_reader taking the OS environment of the reader in both modes
from_reader_reads_os(doc, os) ==
    ProcessEnv(OsEnv_empty(os),
               JsonToVars(Field(doc, "from_kv")),
               JsonToNames(Field(doc, "masked")))

\* ProcessEnv::from_reader, for a document it accepts; os is the
\* environment of the process that deserializes.
from_reader(doc, os) ==
    ProcessEnv(IF HasField(doc, "from_env")
                 THEN JsonToOsEnv(Field(doc, "from_env"))
                 ELSE OsEnv_empty(os),
               JsonToVars(Field(doc, "from_kv")),
               JsonToNames(Field(doc, "masked")))

NoMap == [set |-> FALSE, map |-> EmptyMap]
SomeMap(m) == [set |-> TRUE, map |-> m]

NotMade == [set |-> FALSE, map |-> EmptyMap, persisted |-> FALSE, env |-> NoEnv]
Made(e) ==
    [set |-> TRUE, map |-> into_env(e), persisted |-> e.from_env.tag = "Persisted", env |-> e]

(***************************************************************************)
(* Results and exit statuses.                                              *)
(***************************************************************************)
NoResult == [done |-> FALSE, ok |-> FALSE, err |-> "none"]
Ok == [done |-> TRUE, ok |-> TRUE, err |-> "none"]
Err(e) == [done |-> TRUE, ok |-> FALSE, err |-> e]

\* std::process::ExitStatus: an exit code, or none when a signal ended the child
NoStatus == [got |-> FALSE, signaled |-> FALSE, code |-> 0]
Exited(c) == [got |-> TRUE, signaled |-> FALSE, code |-> c]
Signaled == [got |-> TRUE, signaled |-> TRUE, code |-> 0]

success(st) == ~st.signaled /\ st.code = 0
has_code(st) == ~st.signaled

\* the exit codes a child can end with
ChildCodes == 0..255

NoChild == [st |-> "none", status |-> NoStatus, env |-> EmptyMap]

Running == [exited |-> FALSE, code |-> 0, diag |-> "none"]

\* std::process::exit(code): the status the invoker sees is the low byte
\* of the i32 handed to exit
process_exit(code) == [exited |-> TRUE, code |-> code % 256, diag |-> "none"]

\* main returns: Ok(()) ends the process with 0, Err(e) prints the error to
\* stderr and ends it with 1
main_returns(r) ==
    IF r.ok THEN [exited |-> TRUE, code |-> 0, diag |-> "none"]
    ELSE [exited |-> TRUE, code |-> 1, diag |-> r.err]

(***************************************************************************)
(* The life of a ProcessEnv: made by a producer (cache, run-in), written   *)
(* to the artifact by cache, read back by a later run-with process.        *)
(***************************************************************************)
OkV(v) == [ok |-> TRUE, v |-> v, err |-> "none"]
ErrV(e) == [ok |-> FALSE, v |-> <<>>, err |-> e]
NoDownload == [ok |-> FALSE, v |-> <<>>, err |-> "none"]

NoCfg == [mode |-> "none", prefix |-> <<>>, snapshot_env |-> FALSE, mask |-> <<>>]

ResolveIdle ==
    /\ cfg = NoCfg
    /\ listed = <<>>
    /\ secrets = <<>>
    /\ env_names = <<>>
    /\ fetches = <<>>
    /\ arrivals = <<>>
    /\ payload = NoFile
    /\ dl = NoDownload

RunIdle ==
    /\ file_open = FALSE
    /\ child = NoChild
    /\ wait_status = NoStatus
    /\ ret = NoResult
    /\ launcher = Running
    /\ remove_tried = FALSE

\* the paths of the model: the configured output file, two names in the
\* configured output directory, two names in the system temp directory
Paths == {"F", "D1", "D2", "T1", "T2"}
dir_of(p) == IF p \in {"D1", "D2"} THEN "D" ELSE IF p \in {"T1", "T2"} THEN "T" ELSE "."

NoHandle == [t |-> "none", path |-> "none"]
NoOutputCfg == [output_file |-> "none", output_dir |-> "none", existing |-> {}]

\* the cache command's own state is idle
CacheIdle ==
    /\ cache_in = NoOutputCfg
    /\ disk = [p \in Paths |-> "missing"]
    /\ handle = NoHandle
    /\ printed = "none"

\* no conversion is called on its own
PureIdle ==
    /\ fn = "none"
    /\ arg = <<>>
    /\ arg2 = <<>>
    /\ out = NoDownload

InitEnv ==
    /\ cmd \in {"cache", "run_in"}
    /\ pc = "start"
    /\ os_vars \in OsLists
    /\ proc_env = NoEnv
    /\ env_file = NoFile
    /\ env_map = NoMap
    /\ made_map = NotMade
    /\ os_at_make = <<>>
    /\ cleanup = FALSE
    /\ RunIdle
    /\ PureIdle
    /\ CacheIdle
    /\ ResolveIdle

\* download_env has its entries: ProcessEnv::new
MakeEnv(from_kv, masked, snapshot_env) ==
    /\ cmd \in {"cache", "run_in"}
    /\ proc_env' = ProcessEnv_new(from_kv, masked, snapshot_env, os_vars)
    /\ made_map' = Made(proc_env')
    /\ os_at_make' = os_vars
    /\ pc' = "resolved"
    /\ UNCHANGED <<cmd, os_vars, env_file, env_map, cleanup>>
    /\ UNCHANGED runVars
    /\ UNCHANGED resVars
    /\ UNCHANGED pureVars
    /\ UNCHANGED cacheVars

Resolved ==
    /\ pc = "start"
    /\ \E from_kv \in KvLists, masked \in MaskLists, snapshot_env \in BOOLEAN :
        MakeEnv(from_kv, masked, snapshot_env)

\* The environment block of the running process is mutable global state
\* (std::env::set_var, remove_var): it may change between the construction
\* of the ProcessEnv and its use by the same process.
EnvChanges ==
    /\ pc = "resolved"
    /\ os_vars' \in OsLists \ {os_vars}
    /\ UNCHANGED <<cmd, pc, proc_env, env_file, env_map, made_map, os_at_make, cleanup>>
    /\ UNCHANGED runVars
    /\ UNCHANGED resVars
    /\ UNCHANGED pureVars
    /\ UNCHANGED cacheVars

\* cache: store_env writes the artifact, and the process ends
StoreEnv ==
    /\ cmd = "cache"
    /\ pc = "resolved"
    /\ env_file' = to_writer(proc_env)
    /\ pc' = "stored"
    /\ proc_env' = NoEnv
    /\ os_vars' = <<>>
    /\ os_at_make' = <<>>
    /\ UNCHANGED <<cmd, env_map, made_map, cleanup>>
    /\ UNCHANGED runVars
    /\ UNCHANGED resVars
    /\ UNCHANGED pureVars
    /\ UNCHANGED cacheVars

\* a later invocation, in its own environment: kvenv run-with
StartRunWith ==
    /\ pc = "stored"
    /\ cmd' = "run_with"
    /\ pc' = "start"
    /\ os_vars' \in OsLists
    /\ UNCHANGED <<proc_env, env_file, env_map, made_map, os_at_make, cleanup>>
    /\ UNCHANGED runVars
    /\ UNCHANGED resVars
    /\ UNCHANGED pureVars
    /\ UNCHANGED cacheVars

\* load_env: fs::File::open
OpenEnvFile ==
    /\ cmd = "run_with"
    /\ pc = "start"
    /\ env_file # NoFile
    /\ file_open' = TRUE
    /\ pc' = "opened"
    /\ UNCHANGED <<cmd, os_vars, proc_env, env_file, env_map, made_map, os_at_make, cleanup>>
    /\ UNCHANGED <<child, wait_status, ret, launcher, remove_tried>>
    /\ UNCHANGED resVars
    /\ UNCHANGED pureVars
    /\ UNCHANGED cacheVars

\* load_env: ProcessEnv::from_reader; the File is dropped when load_env returns
ReadEnvFile ==
    /\ cmd = "run_with"
    /\ pc = "opened"
    /\ env_file.t = "obj"
    /\ Deserializable(env_file)
    /\ proc_env' = from_reader(env_file, os_vars)
    /\ os_at_make' = os_vars
    /\ file_open' = drop_file(file_open)
    /\ pc' = "loaded"
    /\ UNCHANGED <<cmd, os_vars, env_file, env_map, made_map, cleanup>>
    /\ UNCHANGED <<child, wait_status, ret, launcher, remove_tried>>
    /\ UNCHANGED resVars
    /\ UNCHANGED pureVars
    /\ UNCHANGED cacheVars

\* run_in_env / run_with: the flat map of the child
IntoEnv ==
    /\ \/ cmd = "run_in" /\ pc = "resolved"
       \/ cmd = "run_with" /\ pc = "loaded"
    /\ env_map' = SomeMap(into_env(proc_env))
    /\ pc' = "merged"
    /\ UNCHANGED <<cmd, os_vars, proc_env, env_file, made_map, os_at_make, cleanup>>
    /\ UNCHANGED runVars
    /\ UNCHANGED resVars
    /\ UNCHANGED pureVars
    /\ UNCHANGED cacheVars

NextEnv ==
    \/ Resolved
    \/ EnvChanges
    \/ StoreEnv
    \/ StartRunWith
    \/ OpenEnvFile
    \/ ReadEnvFile
    \/ IntoEnv

SpecEnv == InitEnv /\ [][NextEnv]_vars

(***************************************************************************)
(* The merge/mask law, stated name by name.                                *)
(***************************************************************************)
InList(l, n) == \E i \in 1..Len(l) : l[i][1] = n
LastValue(l, n) ==
    l[CHOOSE i \in 1..Len(l) :
        l[i][1] = n /\ \A j \in (i + 1)..Len(l) : l[j][1] # n][2]
IsMasked(masked, n) == \E i \in 1..Len(masked) : masked[i] = n

MergeLaw(os, kv, masked, m) ==
    /\ DOMAIN m \subseteq Names
    /\ \A n \in Names :
        IF IsMasked(masked, n) THEN n \notin DOMAIN m
        ELSE IF InList(kv, n) THEN n \in DOMAIN m /\ m[n] = LastValue(kv, n)
        ELSE IF InList(os, n) THEN n \in DOMAIN m /\ m[n] = LastValue(os, n)
        ELSE n \notin DOMAIN m

\* C1: into_env returns the OS list overlaid with the backend list, minus
\* every masked name: a masked name is no key of the map, an unmasked backend
\* name has its (last) backend value, an unmasked OS-only name its OS value.
C1_MergeMask ==
    pc = "merged" =>
        MergeLaw(proc_env.from_env.vars, proc_env.from_kv, proc_env.masked, env_map.map)

C1_Witness ==
    /\ pc = "merged"
    /\ \E n \in Names :
        /\ IsMasked(proc_env.masked, n)
        /\ InList(proc_env.from_env.vars, n)
        /\ InList(proc_env.from_kv, n)
    /\ \E n \in Names :
        /\ ~IsMasked(proc_env.masked, n)
        /\ InList(proc_env.from_env.vars, n)
        /\ InList(proc_env.from_kv, n)
        /\ env_map.map[n] \in KvValues

\* C2: for an environment made in Persisted mode, the map of the environment
\* read back from the artifact equals the map computed right after resolution.
C2_RoundTrip ==
    (cmd = "run_with" /\ made_map.persisted) =>
        /\ pc = "loaded" => into_env(proc_env) = made_map.map
        /\ pc = "merged" => env_map.map = made_map.map

C2_Witness ==
    /\ cmd = "run_with"
    /\ pc = "merged"
    /\ made_map.persisted
    /\ os_vars # proc_env.from_env.vars
    /\ Len(proc_env.from_env.vars) = 2
    /\ proc_env.from_env.vars[1][1] = proc_env.from_env.vars[2][1]
    /\ proc_env.from_env.vars[1][2] # proc_env.from_env.vars[2][2]
    /\ \E n \in Names : IsMasked(proc_env.masked, n) /\ InList(proc_env.from_kv, n)
    /\ env_map.map # EmptyMap

\* C3: the artifact of a Fresh-mode environment has no OS-environment field,
\* and an artifact without that field is read back as a Fresh-mode
\* environment holding the OS variables of the process that reads it.
C3_FreshNotPersisted ==
    /\ (pc = "stored" /\ ~made_map.persisted) =>
        \A i \in 1..Len(env_file.v) : env_file.v[i][1] \in {"from_kv", "masked"}
    /\ (cmd = "run_with" /\ pc = "loaded" /\ ~HasField(env_file, "from_env")) =>
        proc_env.from_env = OsEnv("Fresh", os_vars)

C3_Witness ==
    /\ cmd = "run_with"
    /\ pc = "loaded"
    /\ ~made_map.persisted
    /\ ~HasField(env_file, "from_env")
    /\ os_vars # <<>>
    /\ into_env(proc_env) # made_map.map

C23_ConsumerIndependent ==
    (cmd = "run_with" /\ env_map.set /\ HasField(env_file, "from_env")) =>
        \A os \in OsLists : into_env(from_reader(env_file, os)) = env_map.map

\* the consumer has a variable that the snapshot lacks; its map lacks it too
C23_Witness ==
    /\ cmd = "run_with"
    /\ env_map.set
    /\ HasField(env_file, "from_env")
    /\ \E i \in 1..Len(os_vars) :
        /\ ~InList(proc_env.from_env.vars, os_vars[i][1])
        /\ ~InList(proc_env.from_kv, os_vars[i][1])
        /\ os_vars[i][1] \notin DOMAIN env_map.map

\* C24: an environment read back from the artifact it was written to has
\* the fields that were stored: from_kv with the same pairs in the same
\* order and masked with the same names in the same order in both modes,
\* and in Persisted mode the Persisted tag and the same OS list.
C24_FieldsVerbatim ==
    (cmd = "run_with" /\ proc_env.t = "env" /\ made_map.set) =>
        /\ proc_env.from_kv = made_map.env.from_kv
        /\ proc_env.masked = made_map.env.masked
        /\ made_map.env.from_env.tag = "Persisted" => proc_env.from_env = made_map.env.from_env

\* a Persisted environment with two backend entries of one name, two masked
\* names and two OS variables, read back as it was
C24_Witness ==
    /\ cmd = "run_with"
    /\ proc_env.t = "env"
    /\ made_map.set
    /\ proc_env.from_env.tag = "Persisted"
    /\ Len(proc_env.from_env.vars) = 2
    /\ Len(proc_env.from_kv) = 2
    /\ proc_env.from_kv[1][1] = proc_env.from_kv[2][1]
    /\ proc_env.from_kv[1][2] # proc_env.from_kv[2][2]
    /\ Len(proc_env.masked) = 2
    /\ proc_env = made_map.env

(***************************************************************************)
(* Resolution.  A string the program inspects character by character (a    *)
(* secret identifier, a key of the secret's JSON document) is a sequence   *)
(* of one-character strings.                                               *)
(***************************************************************************)
MaxListed == 3

Letters ==
    {"a", "b", "c", "d", "e", "f", "g", "h", "i", "j", "k", "l", "m",
     "n", "o", "p", "q", "r", "s", "t", "u", "v", "w", "x", "y", "z",
     "A", "B", "C", "D", "E", "F", "G", "H", "I", "J", "K", "L", "M",
     "N", "O", "P", "Q", "R", "S", "T", "U", "V", "W", "X", "Y", "Z"}
DigitChars == <<"0", "1", "2", "3", "4", "5", "6", "7", "8", "9">>
Digits == {DigitChars[i] : i \in 1..Len(DigitChars)}

is_ascii_alphabetic(c) == c \in Letters
is_ascii_alphanumeric(c) == c \in Letters \cup Digits

\* as_valid_env_name accepting any first character
as_valid_env_name_any_first(name) ==
    IF name # <<>> /\ \A i \in 1..Len(name) : is_ascii_alphanumeric(name[i]) \/ name[i] = "_"
    THEN OkV(name)
    ELSE ErrV("InvalidSecretFormat")

as_valid_env_name(name) ==
    IF /\ name # <<>>
       /\ \A i \in 1..Len(name) : is_ascii_alphanumeric(name[i]) \/ name[i] = "_"
       /\ is_ascii_alphabetic(name[1])
    THEN OkV(name)
    ELSE ErrV("InvalidSecretFormat")

\* format!("{}", n) of an integer
RECURSIVE NatToChars(_)
NatToChars(n) ==
    IF n < 10 THEN <<DigitChars[n + 1]>>
    ELSE NatToChars(n \div 10) \o <<DigitChars[(n % 10) + 1]>>
IntToChars(n) == IF n < 0 THEN <<"-">> \o NatToChars(-n) ELSE NatToChars(n)

JBool(b) == [t |-> "bool", v |-> b]
JNum(n) == [t |-> "num", v |-> n]
JNull == [t |-> "null", v |-> <<>>]

\* a number with a fraction (serde_json's Number holding an f64), of a size
\* that is written without an exponent: sign, integer part, fraction digits
JFloat(neg, int, frac) == [t |-> "float", v |-> [neg |-> neg, int |-> int, frac |-> frac]]

\* format!("{}", n) of such a number
FloatToChars(f) ==
    (IF f.neg THEN <<"-">> ELSE <<>>) \o NatToChars(f.int) \o <<".">>
        \o [i \in 1..Len(f.frac) |-> DigitChars[f.frac[i] + 1]]

\* value_as_string turning null into the empty string and an array or an
\* object into its text
value_as_string_lenient(v) ==
    CASE v.t = "str" -> OkV(v.v)
      [] v.t = "bool" -> OkV(IF v.v THEN <<"t", "r", "u", "e">> ELSE <<"f", "a", "l", "s", "e">>)
      [] v.t = "num" -> OkV(IntToChars(v.v))
      [] v.t = "float" -> OkV(FloatToChars(v.v))
      [] v.t = "null" -> OkV(<<>>)
      [] OTHER -> OkV(<<"[", "]">>)

value_as_string(v) ==
    CASE v.t = "str" -> OkV(v.v)
      [] v.t = "bool" -> OkV(IF v.v THEN <<"t", "r", "u", "e">> ELSE <<"f", "a", "l", "s", "e">>)
      [] v.t = "num" -> OkV(IntToChars(v.v))
      [] v.t = "float" -> OkV(FloatToChars(v.v))
      [] v.t = "null" -> OkV(<<"n", "u", "l", "l">>)
      [] OTHER -> ErrV("InvalidSecretFormat")

str_replace(s, from, to) == [i \in 1..Len(s) |-> IF s[i] = from THEN to ELSE s[i]]

starts_with(s, p) == Len(p) <= Len(s) /\ SubSeq(s, 1, Len(p)) = p

\* convert_env_name without the validation of the derived name
convert_env_name_unchecked(prefix, name) ==
    OkV(str_replace(SubSeq(name, Len(prefix) + 1, Len(name)), "-", "_"))

\* convert_env_name refusing a name that does not start with the prefix
convert_env_name_checked(prefix, name) ==
    IF starts_with(name, prefix)
    THEN as_valid_env_name(str_replace(SubSeq(name, Len(prefix) + 1, Len(name)), "-", "_"))
    ELSE ErrV("InvalidSecretFormat")

convert_env_name(prefix, name) ==
    as_valid_env_name(str_replace(SubSeq(name, Len(prefix) + 1, Len(name)), "-", "_"))

\* Iterator::collect::<Result<Vec<_>>>(): the first error in order, or all values
collect_skipping_errors(rs) ==
    LET Kept == {i \in 1..Len(rs) : rs[i].ok}
        Nth(k) == CHOOSE i \in Kept : Cardinality({j \in Kept : j < i}) = k - 1
    IN OkV([k \in 1..Cardinality(Kept) |-> rs[Nth(k)].v])

collect_results(rs) ==
    IF \E i \in 1..Len(rs) : ~rs[i].ok
    THEN ErrV(rs[CHOOSE i \in 1..Len(rs) : ~rs[i].ok /\ \A j \in 1..(i - 1) : rs[j].ok].err)
    ELSE OkV([i \in 1..Len(rs) |-> rs[i].v])

\* decode_env_from_json dropping the entries it cannot convert
decode_env_lenient(value) ==
    IF value.t = "obj"
    THEN collect_skipping_errors(
            [i \in 1..Len(value.v) |->
                LET k == as_valid_env_name(value.v[i][1])
                    v == value_as_string(value.v[i][2])
                IN IF ~k.ok THEN k ELSE IF ~v.ok THEN v ELSE OkV(<<k.v, v.v>>)])
    ELSE ErrV("InvalidSecretFormat")

decode_env_from_json(value) ==
    IF value.t = "obj"
    THEN collect_results(
            [i \in 1..Len(value.v) |->
                LET k == as_valid_env_name(value.v[i][1])
                    v == value_as_string(value.v[i][2])
                IN IF ~k.ok THEN k ELSE IF ~v.ok THEN v ELSE OkV(<<k.v, v.v>>)])
    ELSE ErrV("InvalidSecretFormat")

\* serde_json::from_str of the secret's value
parse_json(text) == IF text.t = "bad" THEN ErrV("CannotDeserialize") ELSE OkV(text)

\* download_json, once the secret is fetched: parse, then decode
decode_secret(text) ==
    LET value == parse_json(text)
    IN IF value.ok THEN decode_env_from_json(value.v) ELSE value

\* AzureVault::strip_prefix: the text after the last '/'
strip_prefix(id) ==
    LET idx == CHOOSE i \in 1..Len(id) : id[i] = "/" /\ \A j \in (i + 1)..Len(id) : id[j] # "/"
    IN SubSeq(id, idx + 1, Len(id))

RECURSIVE SelectStartsWith(_, _)
SelectStartsWith(l, p) ==
    IF l = <<>> THEN <<>>
    ELSE (IF starts_with(Head(l), p) THEN <<Head(l)>> ELSE <<>>) \o SelectStartsWith(Tail(l), p)

\* the secrets of the listing that download_prefixed goes on with
matching_secrets(ids, prefix) ==
    SelectStartsWith([i \in 1..Len(ids) |-> strip_prefix(ids[i])], prefix)

Pending == [st |-> "pending", v |-> <<>>]
Fetched(v) == [st |-> "ok", v |-> v]
FetchFailed == [st |-> "failed", v |-> <<>>]

\* try_join_all keeping the values of the fetches that succeeded
try_join_all_lenient(fs) ==
    IF \E i \in 1..Len(fs) : fs[i].st = "pending"
    THEN [ready |-> FALSE, res |-> NoDownload]
    ELSE [ready |-> TRUE,
          res |-> collect_skipping_errors(
                    [i \in 1..Len(fs) |->
                        IF fs[i].st = "ok" THEN OkV(fs[i].v) ELSE ErrV("CannotLoadSecret")])]

\* try_join_all giving the values in the order in which the fetches completed
try_join_all_arrival_order(fs) ==
    IF \E i \in 1..Len(fs) : fs[i].st = "failed"
    THEN [ready |-> TRUE, res |-> ErrV("CannotLoadSecret")]
    ELSE IF fs = <<>>
    THEN [ready |-> TRUE, res |-> OkV(<<>>)]
    ELSE IF \A i \in 1..Len(fs) : fs[i].st = "ok"
    THEN [ready |-> TRUE, res |-> OkV([k \in 1..Len(fs) |-> fs[arrivals'[k]].v])]
    ELSE [ready |-> FALSE, res |-> NoDownload]

\* a join that reports the error only when every fetch has completed
try_join_all_waits_for_all(fs) ==
    IF \E i \in 1..Len(fs) : fs[i].st = "pending"
    THEN [ready |-> FALSE, res |-> NoDownload]
    ELSE IF \E i \in 1..Len(fs) : fs[i].st = "failed"
    THEN [ready |-> TRUE, res |-> ErrV("CannotLoadSecret")]
    ELSE [ready |-> TRUE, res |-> OkV([i \in 1..Len(fs) |-> fs[i].v])]

\* futures::future::try_join_all, as polled: an error as soon as one future
\* has failed, the values in the order of the futures once all have succeeded
try_join_all(fs) ==
    IF \E i \in 1..Len(fs) : fs[i].st = "failed"
    THEN [ready |-> TRUE, res |-> ErrV("CannotLoadSecret")]
    ELSE IF \A i \in 1..Len(fs) : fs[i].st = "ok"
    THEN [ready |-> TRUE, res |-> OkV([i \in 1..Len(fs) |-> fs[i].v])]
    ELSE [ready |-> FALSE, res |-> NoDownload]

\* Iterator::zip: as long as the shorter of the two
zip(a, b) ==
    [i \in 1..(IF Len(a) < Len(b) THEN Len(a) ELSE Len(b)) |-> <<a[i], b[i]>>]

(***************************************************************************)
(* The backend of the model: a key vault whose secrets are named by the    *)
(* leaves below, and the values a secret fetched in single mode may have.  *)
(***************************************************************************)
Prefix == <<"p">>
VaultPath == <<"v", "/">>
Leaves ==
    { <<"p", "a">>, <<"p", "b", "-", "c">>, <<"p", "b", "_", "c">>, <<"p", "d">>,
      <<"p", "1">>, <<"p">>, <<"x", "a">> }
\* the value the vault holds for a secret
SecretValue(leaf) == <<"=">> \o leaf

Listings ==
    {l \in SeqsUpTo({VaultPath \o x : x \in Leaves}, MaxListed) :
        \A i, j \in 1..Len(l) : i # j => l[i] # l[j]}

KeyA == <<"a">>
KeyB == <<"b">>
Payloads ==
    << BadFile,
       JNum(12),
       JObj(<<>>),
       JObj(<< <<KeyA, JStr(<<"x">>)>> >>),
       JObj(<< <<KeyA, JNum(12)>>, <<KeyB, JBool(TRUE)>> >>),
       JObj(<< <<<<"1", "a">>, JStr(<<"x">>)>>, <<KeyA, JNull>> >>),
       JObj(<< <<KeyA, JStr(<<"x">>)>>, <<KeyB, JArr(<<JNum(1), JNum(2)>>)>> >>),
       JObj(<< <<<<"a", "!">>, JNum(1)>>, <<KeyB, JNum(2)>> >>) >>

ResolveOsLists == { <<>>, << <<KeyA, <<"e">>>>, <<KeyB, <<"e">>>> >> }
ResolveMasks == { <<>>, << KeyB >> }

InitResolve ==
    /\ cmd \in {"cache", "run_in"}
    /\ pc = "start"
    /\ os_vars \in ResolveOsLists
    /\ proc_env = NoEnv
    /\ env_file = NoFile
    /\ env_map = NoMap
    /\ made_map = NotMade
    /\ os_at_make = <<>>
    /\ cleanup = FALSE
    /\ RunIdle
    /\ PureIdle
    /\ CacheIdle
    /\ cfg \in [mode : {"single", "prefix"}, prefix : {Prefix},
                snapshot_env : BOOLEAN, mask : ResolveMasks]
    /\ listed = <<>>
    /\ secrets = <<>>
    /\ env_names = <<>>
    /\ fetches = <<>>
    /\ arrivals = <<>>
    /\ payload = NoFile
    /\ dl = NoDownload

\* download_json: the secret is fetched, parsed and decoded
GetSecret ==
    /\ cfg.mode = "single"
    /\ pc = "start"
    /\ \E k \in 1..Len(Payloads) :
        /\ payload' = Payloads[k]
        /\ dl' = decode_secret(Payloads[k])
        /\ pc' = IF dl'.ok THEN "have_kv" ELSE "failed"
    /\ UNCHANGED envData
    /\ UNCHANGED runVars
    /\ UNCHANGED <<cfg, arrivals, listed, secrets, env_names, fetches>>
    /\ UNCHANGED pureVars
    /\ UNCHANGED cacheVars

\* download_json: the fetch fails
GetSecretErr ==
    /\ cfg.mode = "single"
    /\ pc = "start"
    /\ dl' = ErrV("CannotLoadSecret")
    /\ pc' = "failed"
    /\ UNCHANGED envData
    /\ UNCHANGED runVars
    /\ UNCHANGED <<cfg, arrivals, listed, secrets, env_names, fetches, payload>>
    /\ UNCHANGED pureVars
    /\ UNCHANGED cacheVars

\* download_prefixed: the listing arrives, is filtered, and the names are derived
ListSecrets ==
    /\ cfg.mode = "prefix"
    /\ pc = "start"
    /\ \E ids \in Listings :
        LET found == matching_secrets(ids, cfg.prefix)
            names == collect_results([i \in 1..Len(found) |-> convert_env_name(cfg.prefix, found[i])])
        IN /\ listed' = ids
           /\ secrets' = found
           /\ IF names.ok
              THEN env_names' = names.v /\ pc' = "named" /\ UNCHANGED dl
              ELSE env_names' = <<>> /\ pc' = "failed" /\ dl' = ErrV(names.err)
    /\ UNCHANGED envData
    /\ UNCHANGED runVars
    /\ UNCHANGED <<cfg, arrivals, fetches, payload>>
    /\ UNCHANGED pureVars
    /\ UNCHANGED cacheVars

\* download_prefixed: list_secrets fails
ListSecretsErr ==
    /\ cfg.mode = "prefix"
    /\ pc = "start"
    /\ dl' = ErrV("CannotLoadSecret")
    /\ pc' = "failed"
    /\ UNCHANGED envData
    /\ UNCHANGED runVars
    /\ UNCHANGED <<cfg, arrivals, listed, secrets, env_names, fetches, payload>>
    /\ UNCHANGED pureVars
    /\ UNCHANGED cacheVars

\* what download_prefixed does with the state of the join
Joined(fs) ==
    LET j == try_join_all(fs)
    IN IF ~j.ready THEN pc' = "fetching" /\ UNCHANGED dl
       ELSE IF j.res.ok THEN pc' = "have_kv" /\ dl' = OkV(zip(env_names, j.res.v))
       ELSE pc' = "failed" /\ dl' = j.res

\* download_prefixed: one fetch per secret is made and try_join_all awaited
StartFetches ==
    /\ pc = "named"
    /\ fetches' = [i \in 1..Len(secrets) |-> Pending]
    /\ Joined(fetches')
    /\ UNCHANGED envData
    /\ UNCHANGED runVars
    /\ UNCHANGED <<cfg, arrivals, listed, secrets, env_names, payload>>
    /\ UNCHANGED pureVars
    /\ UNCHANGED cacheVars

\* one fetch completes with the value of its secret
FetchOk ==
    /\ pc = "fetching"
    /\ \E i \in 1..Len(fetches) :
        /\ fetches[i].st = "pending"
        /\ fetches' = [fetches EXCEPT ![i] = Fetched(SecretValue(secrets[i]))]
        /\ arrivals' = Append(arrivals, i)
    /\ Joined(fetches')
    /\ UNCHANGED envData
    /\ UNCHANGED runVars
    /\ UNCHANGED <<cfg, listed, secrets, env_names, payload>>
    /\ UNCHANGED pureVars
    /\ UNCHANGED cacheVars

\* one fetch fails
FetchErr ==
    /\ pc = "fetching"
    /\ \E i \in 1..Len(fetches) :
        /\ fetches[i].st = "pending"
        /\ fetches' = [fetches EXCEPT ![i] = FetchFailed]
        /\ arrivals' = Append(arrivals, i)
    /\ Joined(fetches')
    /\ UNCHANGED envData
    /\ UNCHANGED runVars
    /\ UNCHANGED <<cfg, listed, secrets, env_names, payload>>
    /\ UNCHANGED pureVars
    /\ UNCHANGED cacheVars

\* download_env: ProcessEnv::new(from_kv, cfg.mask, cfg.snapshot_env)
NewEnv ==
    /\ pc = "have_kv"
    /\ MakeEnv(dl.v, cfg.mask, cfg.snapshot_env)

NextResolve ==
    \/ GetSecret
    \/ GetSecretErr
    \/ ListSecrets
    \/ ListSecretsErr
    \/ StartFetches
    \/ FetchOk
    \/ FetchErr
    \/ NewEnv
    \/ StoreEnv
    \/ IntoEnv

SpecResolve == InitResolve /\ [][NextResolve]_vars

(***************************************************************************)
(* Properties of resolution.                                               *)
(***************************************************************************)
\* what an environment variable name must look like
ValidNameSpec(n) ==
    /\ Len(n) > 0
    /\ n[1] \in Letters
    /\ \A i \in 1..Len(n) : n[i] \in Letters \cup Digits \cup {"_"}

\* the name a matched secret stands for
DerivedName(s) ==
    LET rest == SubSeq(s, Len(cfg.prefix) + 1, Len(s))
    IN [i \in 1..Len(rest) |-> IF rest[i] = "-" THEN "_" ELSE rest[i]]

AnyNameFails == \E i \in 1..Len(secrets) : ~ValidNameSpec(DerivedName(secrets[i]))
AnyFetchFails == \E i \in 1..Len(fetches) : fetches[i].st = "failed"

NothingProduced ==
    /\ proc_env = NoEnv
    /\ made_map = NotMade
    /\ env_map = NoMap
    /\ env_file = NoFile

\* C5: in prefix mode, once the name derivation or the fetch of any matched
\* secret has failed, the resolution has failed with an error and no
\* ProcessEnv exists, whatever the other fetches did and in whatever order.
C5_PrefixAllOrNothing ==
    (cfg.mode = "prefix" /\ (AnyNameFails \/ AnyFetchFails))
        => /\ pc = "failed"
           /\ ~dl.ok
           /\ dl.err # "none"
           /\ NothingProduced

\* three matched secrets, the second and third fetched, the first failed last
C5_Witness ==
    /\ cfg.mode = "prefix"
    /\ Len(fetches) = 3
    /\ fetches[1].st = "failed"
    /\ fetches[2].st = "ok"
    /\ fetches[3].st = "ok"
    /\ pc = "failed"
    /\ proc_env = NoEnv

\* a document decode_env_from_json accepts: an object whose keys are valid
\* names and whose values are strings, booleans, numbers or null
DocValid(doc) ==
    /\ doc.t = "obj"
    /\ \A i \in 1..Len(doc.v) :
        /\ ValidNameSpec(doc.v[i][1])
        /\ doc.v[i][2].t \in {"str", "bool", "num", "float", "null"}

\* the error of the step that failed: the fetch, the parse or the decode
OriginatingError ==
    IF payload.t = "missing" THEN "CannotLoadSecret"
    ELSE IF payload.t = "bad" THEN "CannotDeserialize"
    ELSE "InvalidSecretFormat"

\* C6: in single mode, when the fetch, the JSON parse or the decode fails,
\* resolution has failed with the error of that step, no ProcessEnv exists
\* and the OS environment has not been read.
C6_SingleFailureAborts ==
    (cfg.mode = "single" /\ pc # "start" /\ (payload.t = "missing" \/ ~DocValid(payload)))
        => /\ pc = "failed"
           /\ ~dl.ok
           /\ dl.err = OriginatingError
           /\ NothingProduced
           /\ os_at_make = <<>>

\* a document with one good and one bad entry, a snapshot requested, a
\* non-empty OS environment
C6_Witness ==
    /\ cfg.mode = "single"
    /\ cfg.snapshot_env
    /\ os_vars # <<>>
    /\ payload.t = "obj"
    /\ \E i, j \in 1..Len(payload.v) :
        /\ ValidNameSpec(payload.v[i][1])
        /\ payload.v[i][2].t = "str"
        /\ payload.v[j][2].t = "arr"
    /\ pc = "failed"
    /\ dl.err = "InvalidSecretFormat"
    /\ os_at_make = <<>>

(***************************************************************************)
(* Prefix mode of the Google backend: the secrets are fetched one after    *)
(* the other, and the name of each is its leaf without the prefix.         *)
(***************************************************************************)
\* GoogleConfig::strip_project: the text after the last '/'
strip_project(name) == strip_prefix(name)

\* GoogleConfig::secret_matches
secret_matches(prefix, name) == starts_with(strip_project(name), prefix)

\* GoogleConfig::strip_prefix: &strip_project(name)[prefix.len()..]
google_strip_prefix(prefix, name) ==
    SubSeq(strip_project(name), Len(prefix) + 1, Len(strip_project(name)))

InitGoogle ==
    /\ InitResolve
    /\ cfg.mode = "prefix"

\* download_prefixed: secrets_list answers; the secrets that match are kept
GoogleList ==
    /\ cfg.mode = "prefix"
    /\ pc = "start"
    /\ \E ids \in Listings :
        /\ listed' = ids
        /\ secrets' = SelectSeq(ids, LAMBDA id : secret_matches(cfg.prefix, id))
        /\ IF secrets' = <<>>
           THEN pc' = "have_kv" /\ dl' = OkV(<<>>)
           ELSE pc' = "fetching" /\ UNCHANGED dl
    /\ UNCHANGED envData
    /\ UNCHANGED runVars
    /\ UNCHANGED <<cfg, arrivals, env_names, fetches, payload>>
    /\ UNCHANGED pureVars
    /\ UNCHANGED cacheVars

\* download_prefixed: secrets_list fails, or the answer holds no secrets
GoogleListErr ==
    /\ cfg.mode = "prefix"
    /\ pc = "start"
    /\ \E e \in {"SecretManagerError", "NoSecrets"} : dl' = ErrV(e)
    /\ pc' = "failed"
    /\ UNCHANGED envData
    /\ UNCHANGED runVars
    /\ UNCHANGED <<cfg, arrivals, listed, secrets, env_names, fetches, payload>>
    /\ UNCHANGED pureVars
    /\ UNCHANGED cacheVars

\* one turn of the loop: the next secret is fetched and pushed under the
\* name strip_prefix gives it; after the last one from_kv is returned
GoogleFetch ==
    /\ pc = "fetching"
    /\ LET i == Len(fetches) + 1
       IN /\ fetches' = Append(fetches, Fetched(SecretValue(strip_project(secrets[i]))))
          /\ env_names' = Append(env_names, google_strip_prefix(cfg.prefix, secrets[i]))
          /\ IF i = Len(secrets)
             THEN /\ pc' = "have_kv"
                  /\ dl' = OkV([k \in 1..i |-> <<env_names'[k], fetches'[k].v>>])
             ELSE pc' = "fetching" /\ UNCHANGED dl
    /\ UNCHANGED envData
    /\ UNCHANGED runVars
    /\ UNCHANGED <<cfg, arrivals, listed, secrets, payload>>
    /\ UNCHANGED pureVars
    /\ UNCHANGED cacheVars

\* one turn of the loop: the fetch fails, `?` leaves download_prefixed
GoogleFetchErr ==
    /\ pc = "fetching"
    /\ fetches' = Append(fetches, FetchFailed)
    /\ dl' = ErrV("SecretManagerError")
    /\ pc' = "failed"
    /\ UNCHANGED envData
    /\ UNCHANGED runVars
    /\ UNCHANGED <<cfg, arrivals, listed, secrets, env_names, payload>>
    /\ UNCHANGED pureVars
    /\ UNCHANGED cacheVars

NextGoogle ==
    \/ GoogleList
    \/ GoogleListErr
    \/ GoogleFetch
    \/ GoogleFetchErr
    \/ NewEnv

SpecGoogle == InitGoogle /\ [][NextGoogle]_vars

\* C16: after a successful resolution every name of from_kv is a valid
\* variable name: non-empty, an ASCII letter first, only ASCII letters,
\* digits and underscores.
C16_NamesValid ==
    proc_env.t = "env" =>
        \A i \in 1..Len(proc_env.from_kv) : ValidNameSpec(proc_env.from_kv[i][1])

(***************************************************************************)
(* The conversions, each called on its own with arguments of its domain.   *)
(***************************************************************************)
MaxNameLen == 3

NameChars == {"a", "Z", "1", "_", "-", "!"}
NameExamples ==
    { <<"a", "b", "c">>, <<"a", "b", "c", "1", "2", "3">>,
      <<"a", "b", "_", "1", "2", "_", "a", "b">>,
      <<"1", "2", "3", "a", "b", "c">>, <<"a", "b", "!">>,
      <<"a", "b", "-", "a", "b">>, <<"_", "a", "b">> }
NameInputs == SeqsUpTo(NameChars, MaxNameLen) \cup NameExamples

Chars_abcd == <<"a", "b", "c", "d">>
ValueInputs ==
    << JStr(Chars_abcd), JStr(<<>>), JStr(<<"n", "u", "l", "l">>),
       JNum(12), JNum(0), JNum(-7), JNum(120), JNum(1005),
       JFloat(FALSE, 12, <<1, 2, 3>>), JFloat(TRUE, 0, <<5>>), JFloat(FALSE, 3, <<0>>),
       JNull, JBool(FALSE), JBool(TRUE),
       JObj(<< <<KeyA, JNum(123)>> >>), JObj(<<>>),
       JArr(<<JNum(1), JNum(2)>>), JArr(<<>>) >>

\* every variable of the resolver and of the launcher is idle
ConvertIdle ==
    /\ cmd = "none"
    /\ pc = "start"
    /\ os_vars = <<>>
    /\ proc_env = NoEnv
    /\ env_file = NoFile
    /\ env_map = NoMap
    /\ made_map = NotMade
    /\ os_at_make = <<>>
    /\ cleanup = FALSE
    /\ RunIdle
    /\ ResolveIdle
    /\ CacheIdle
    /\ out = NoDownload

\* the call returns: only pc and out change
Returns(r) ==
    /\ pc = "start"
    /\ out' = r
    /\ pc' = "returned"
    /\ UNCHANGED envData
    /\ UNCHANGED runVars
    /\ UNCHANGED resVars
    /\ UNCHANGED <<fn, arg, arg2>>
    /\ UNCHANGED cacheVars

Call_as_valid_env_name ==
    /\ fn = "as_valid_env_name"
    /\ Returns(as_valid_env_name(arg))

Call_value_as_string ==
    /\ fn = "value_as_string"
    /\ Returns(value_as_string(arg))

MaxEntries == 2

\* entries a JSON object may hold, in the order of their keys (serde_json's
\* Map iterates in key order and holds each key once)
EntryPool ==
    << <<<<"1", "a">>, JStr(<<"x">>)>>,
       <<KeyA, JStr(<<"x">>)>>,
       <<KeyA, JNum(12)>>,
       <<KeyA, JArr(<<JNum(1), JNum(2)>>)>>,
       <<<<"a", "!">>, JNum(1)>>,
       <<KeyB, JBool(TRUE)>>,
       <<KeyB, JNull>>,
       <<KeyB, JObj(<< <<KeyA, JNum(123)>> >>)>>,
       <<<<"c", "_", "1">>, JFloat(FALSE, 12, <<1, 2, 3>>)>> >>
KeyRank == <<1, 2, 2, 2, 3, 4, 4, 4, 5>>

DocShapes ==
    {idx \in SeqsUpTo(1..Len(EntryPool), MaxEntries) :
        \A i \in 1..(Len(idx) - 1) : KeyRank[idx[i]] < KeyRank[idx[i + 1]]}
DocOf(idx) == JObj([i \in 1..Len(idx) |-> EntryPool[idx[i]]])

Call_decode_env_from_json ==
    /\ fn = "decode_env_from_json"
    /\ Returns(decode_env_from_json(arg))

PrefixInputs == { <<>>, <<"p">>, <<"z", "x", "c">> }
LeafInputs ==
    SeqsUpTo({"p", "a", "1", "-", "_"}, MaxNameLen)
        \cup { <<"a", "b", "c", "-", "-", "1", "2", "3">>, <<"z", "x", "c", "a", "b", "c">>,
               <<"a", "b", "c", "a", "b", "c">>, <<"a", "b", "c", "!">> }

\* convert_env_name slices name[prefix.len()..]: the name is at least as long
slice_ok(prefix, name) == Len(prefix) <= Len(name)

Call_convert_env_name ==
    /\ fn = "convert_env_name"
    /\ Returns(convert_env_name(arg2, arg))

has_separator(id) == \E i \in 1..Len(id) : id[i] = "/"

\* a panic of the thread: Option::unwrap on None
Panicked == [ok |-> FALSE, v |-> <<>>, err |-> "panic"]

\* the name download_prefixed derives for one identifier of the listing:
\* strip_prefix (rfind('/').unwrap()), then, for a leaf that passed the
\* starts_with filter, convert_env_name
derive_env_name(prefix, id) ==
    IF ~has_separator(id) THEN Panicked
    ELSE convert_env_name(prefix, strip_prefix(id))

IdInputs ==
    SeqsUpTo({"/", "p", "a", "1", "-"}, MaxNameLen)
        \cup { <<"a", "b", "c">>, <<"v", "/", "a", "b", "c", "-", "1", "2", "3">>,
               <<"h", "/", "v", "/", "p", "a", "-", "b">>, <<"v", "/", "p">> }

Call_derive_env_name ==
    /\ fn = "derive_env_name"
    /\ Returns(derive_env_name(arg2, arg))

InitConvert ==
    /\ ConvertIdle
    /\ \/ fn = "as_valid_env_name" /\ arg \in NameInputs /\ arg2 = <<>>
       \/ /\ fn = "value_as_string"
          /\ \E k \in 1..Len(ValueInputs) : arg = ValueInputs[k]
          /\ arg2 = <<>>
       \/ /\ fn = "decode_env_from_json"
          /\ \/ \E idx \in DocShapes : arg = DocOf(idx)
             \/ \E k \in 1..Len(ValueInputs) : ValueInputs[k].t # "obj" /\ arg = ValueInputs[k]
          /\ arg2 = <<>>
       \/ /\ fn = "convert_env_name"
          /\ arg2 \in PrefixInputs
          /\ arg \in {l \in LeafInputs : slice_ok(arg2, l)}
       \/ /\ fn = "derive_env_name"
          /\ arg2 \in PrefixInputs
          /\ arg \in {id \in IdInputs : has_separator(id) => starts_with(strip_prefix(id), arg2)}

NextConvert ==
    \/ Call_as_valid_env_name
    \/ Call_value_as_string
    \/ Call_decode_env_from_json
    \/ Call_convert_env_name
    \/ Call_derive_env_name

SpecConvert == InitConvert /\ [][NextConvert]_vars

(***************************************************************************)
(* Properties of the conversions.                                          *)
(***************************************************************************)
Called(f) == fn = f /\ pc = "returned"

Failed(r) == ~r.ok /\ r.v = <<>> /\ r.err = "InvalidSecretFormat"

\* C12: as_valid_env_name returns its argument unchanged exactly when the
\* argument is non-empty, begins with an ASCII letter and holds only ASCII
\* letters, digits and underscores; otherwise it fails.  "", "123abc", "ab!",
\* "ab-ab" and a name that begins with an underscore fail; "abc", "abc123"
\* and "ab_12_ab" pass.
C12_ValidateName ==
    Called("as_valid_env_name") =>
        /\ IF ValidNameSpec(arg) THEN out = OkV(arg) ELSE Failed(out)
        /\ arg \in { <<>>, <<"1", "2", "3", "a", "b", "c">>, <<"a", "b", "!">>,
                     <<"a", "b", "-", "a", "b">> } => Failed(out)
        /\ (arg # <<>> /\ arg[1] = "_") => Failed(out)
        /\ arg \in { <<"a", "b", "c">>, <<"a", "b", "c", "1", "2", "3">>,
                     <<"a", "b", "_", "1", "2", "_", "a", "b">> } => out = OkV(arg)

\* a name that is valid but for its first character, an underscore
C12_Witness ==
    /\ Called("as_valid_env_name")
    /\ arg = <<"_", "a", "b">>
    /\ Failed(out)

DigitOf(c) == CHOOSE d \in 0..9 : DigitChars[d + 1] = c

RECURSIVE CharsToNat(_)
CharsToNat(s) ==
    IF s = <<>> THEN 0
    ELSE CharsToNat(SubSeq(s, 1, Len(s) - 1)) * 10 + DigitOf(s[Len(s)])

\* s is the decimal text of the natural number n
IsNatText(s, n) ==
    /\ s # <<>>
    /\ \A i \in 1..Len(s) : s[i] \in Digits
    /\ Len(s) > 1 => s[1] # "0"
    /\ CharsToNat(s) = n

IsIntText(s, n) ==
    IF n < 0 THEN s # <<>> /\ s[1] = "-" /\ IsNatText(Tail(s), -n)
    ELSE IsNatText(s, n)

\* s is the decimal text of the number f: integer part, point, fraction
IsFloatText(s, f) ==
    LET body == IF f.neg THEN Tail(s) ELSE s
    IN /\ f.neg => (s # <<>> /\ s[1] = "-")
       /\ \E k \in 1..Len(body) :
            /\ body[k] = "."
            /\ IsNatText(SubSeq(body, 1, k - 1), f.int)
            /\ Len(body) - k = Len(f.frac)
            /\ \A i \in 1..Len(f.frac) :
                body[k + i] \in Digits /\ DigitOf(body[k + i]) = f.frac[i]

\* C13: value_as_string gives a string itself, a boolean "true" or "false",
\* a number its decimal text (12 gives "12", 12.123 gives "12.123"), null the
\* string "null"; an object or an array fails and is not flattened.
C13_CoerceScalar ==
    Called("value_as_string") =>
        CASE arg.t = "str" -> out = OkV(arg.v)
          [] arg.t = "bool" ->
                out = OkV(IF arg.v THEN <<"t", "r", "u", "e">> ELSE <<"f", "a", "l", "s", "e">>)
          [] arg.t = "num" ->
                /\ out.ok /\ IsIntText(out.v, arg.v)
                /\ arg.v = 12 => out.v = <<"1", "2">>
          [] arg.t = "float" -> out.ok /\ IsFloatText(out.v, arg.v)
          [] arg.t = "null" -> out = OkV(<<"n", "u", "l", "l">>)
          [] OTHER -> arg.t \in {"arr", "obj"} /\ Failed(out)

\* 12.123 gives "12.123"
C13_Witness ==
    /\ Called("value_as_string")
    /\ arg.t = "float"
    /\ out.ok
    /\ out.v = <<"1", "2", ".", "1", "2", "3">>

\* text is what the scalar value is coerced to
IsCoerced(text, value) ==
    CASE value.t = "str" -> text = value.v
      [] value.t = "bool" ->
            text = (IF value.v THEN <<"t", "r", "u", "e">> ELSE <<"f", "a", "l", "s", "e">>)
      [] value.t = "num" -> IsIntText(text, value.v)
      [] value.t = "float" -> IsFloatText(text, value.v)
      [] value.t = "null" -> text = <<"n", "u", "l", "l">>
      [] OTHER -> FALSE

\* C14: decode_env_from_json is all-or-nothing.  For an object whose keys
\* are all valid names and whose values are all scalars it returns one entry
\* per key, the key with the coerced value, and nothing else ({} gives the
\* empty list); for a value that is no object, or an object with one invalid
\* key or one array or object value, it fails and returns no entry.
C14_DecodeAllOrNothing ==
    Called("decode_env_from_json") =>
        IF DocValid(arg)
        THEN /\ out.ok
             /\ Len(out.v) = Len(arg.v)
             /\ \A i \in 1..Len(arg.v) :
                    out.v[i][1] = arg.v[i][1] /\ IsCoerced(out.v[i][2], arg.v[i][2])
        ELSE Failed(out)

\* one good entry beside one whose value is an object: nothing is returned
C14_Witness ==
    /\ Called("decode_env_from_json")
    /\ arg.t = "obj"
    /\ Len(arg.v) = 2
    /\ ValidNameSpec(arg.v[1][1]) /\ arg.v[1][2].t = "str"
    /\ ValidNameSpec(arg.v[2][1]) /\ arg.v[2][2].t = "obj"
    /\ Failed(out)

\* the position of the last path separator of id, 0 when it has none
LastSeparator(id) ==
    IF has_separator(id)
    THEN CHOOSE i \in 1..Len(id) : id[i] = "/" /\ \A j \in (i + 1)..Len(id) : id[j] # "/"
    ELSE 0

\* the text of id after its last path separator, the whole id when it has none
LeafOf(id) == SubSeq(id, LastSeparator(id) + 1, Len(id))

\* C15: the name derived from an identifier whose leaf (the text after its
\* last path separator, the whole identifier when it has none) starts with
\* the prefix is the leaf without the prefix and with '_' for every '-',
\* validated: returned when it is a valid name, a failure otherwise (a leaf
\* equal to the prefix, a remainder that begins with a digit).
C15_DeriveName ==
    (Called("derive_env_name") /\ starts_with(LeafOf(arg), arg2)) =>
        LET rest == SubSeq(LeafOf(arg), Len(arg2) + 1, Len(LeafOf(arg)))
            name == [i \in 1..Len(rest) |-> IF rest[i] = "-" THEN "_" ELSE rest[i]]
        IN /\ IF ValidNameSpec(name) THEN out = OkV(name) ELSE Failed(out)
           /\ (arg2 = <<>> /\ arg = <<"a", "b", "c">>) => out = OkV(arg)
           /\ LeafOf(arg) = arg2 => Failed(out)

\* the positions in the listing of the identifiers whose leaf starts with
\* the prefix, and the k-th of them
MatchedAt == {i \in 1..Len(listed) : starts_with(LeafOf(listed[i]), cfg.prefix)}
NthMatched(k) == CHOOSE i \in MatchedAt : Cardinality({j \in MatchedAt : j < i}) = k - 1

C18_DuplicatesLastWins ==
    dl.ok =>
        /\ proc_env.t = "env" => proc_env.from_kv = dl.v
        /\ env_file.t = "obj" => JsonToVars(Field(env_file, "from_kv")) = dl.v
        /\ env_map.set =>
            \A i \in 1..Len(dl.v) :
                ~IsMasked(cfg.mask, dl.v[i][1]) =>
                    /\ dl.v[i][1] \in DOMAIN env_map.map
                    /\ env_map.map[dl.v[i][1]] = LastValue(dl.v, dl.v[i][1])

\* two secrets that give the same name, with different values: the map has
\* the value of the second
C18_Witness ==
    /\ dl.ok
    /\ Len(dl.v) = 2
    /\ dl.v[1][1] = dl.v[2][1]
    /\ dl.v[1][2] # dl.v[2][2]
    /\ proc_env.t = "env" /\ proc_env.from_kv = dl.v
    /\ env_map.set
    /\ env_map.map[dl.v[1][1]] = dl.v[2][2]

\* C19: resolution with the snapshot flag makes a ProcessEnv in Persisted
\* mode whose list is the OS environment as read when it was made, and one
\* in Fresh mode without the flag; its masked names are the mask list given.
C19_SnapshotFlag ==
    (dl.ok /\ proc_env.t = "env") =>
        /\ proc_env.from_env.tag = (IF cfg.snapshot_env THEN "Persisted" ELSE "Fresh")
        /\ cfg.snapshot_env => proc_env.from_env.vars = os_at_make
        /\ os_at_make = os_vars
        /\ proc_env.masked = cfg.mask
        /\ made_map.set /\ made_map.persisted = cfg.snapshot_env

\* the flag set, a non-empty OS environment and a non-empty mask list
C19_Witness ==
    /\ dl.ok
    /\ cfg.snapshot_env
    /\ cfg.mask # <<>>
    /\ proc_env.t = "env"
    /\ proc_env.from_env.tag = "Persisted"
    /\ proc_env.from_env.vars = os_vars
    /\ os_vars # <<>>
    /\ proc_env.masked = cfg.mask

\* C21: in prefix mode, in the step in which one fetch fails the
\* resolution has failed with that failure, the first and only one observed,
\* whether or not the other fetches have completed.
C21_FailFast ==
    (cfg.mode = "prefix" /\ AnyFetchFails) =>
        /\ pc = "failed"
        /\ dl = ErrV("CannotLoadSecret")
        /\ Cardinality({i \in 1..Len(fetches) : fetches[i].st = "failed"}) = 1
        /\ arrivals # <<>> /\ fetches[arrivals[Len(arrivals)]].st = "failed"

\* three fetches, the second failed while the other two were still in flight
C21_Witness ==
    /\ cfg.mode = "prefix"
    /\ Len(fetches) = 3
    /\ fetches[1].st = "pending"
    /\ fetches[2].st = "failed"
    /\ fetches[3].st = "pending"
    /\ pc = "failed"
    /\ ~dl.ok

\* C22: in prefix mode the fetches of all matched secrets are in flight
\* together: when the first of them completes, a fetch has been started for
\* every matched secret, none waits for another to complete.
C22_AllInFlight ==
    (cfg.mode = "prefix" /\ \E i \in 1..Len(fetches) : fetches[i].st # "pending")
        => Len(fetches) = Len(secrets)

\* C25: convert_env_name drops the first len(prefix) characters of the name
\* without comparing them with the prefix, puts '_' for every '-' and
\* validates: with prefix "zxc" both "zxcabc" and "abcabc" give "abc", and
\* "abc--123" gives "abc__123".
C25_ConvertDropsByLength ==
    Called("convert_env_name") =>
        LET name == [i \in 1..(Len(arg) - Len(arg2)) |->
                        IF arg[i + Len(arg2)] = "-" THEN "_" ELSE arg[i + Len(arg2)]]
        IN /\ IF ValidNameSpec(name) THEN out = OkV(name) ELSE Failed(out)
           /\ (arg2 = <<"z", "x", "c">> /\ arg \in { <<"z", "x", "c", "a", "b", "c">>,
                                                     <<"a", "b", "c", "a", "b", "c">> })
                => out = OkV(<<"a", "b", "c">>)
           /\ (arg2 = <<>> /\ arg = <<"a", "b", "c", "-", "-", "1", "2", "3">>)
                => out = OkV(<<"a", "b", "c", "_", "_", "1", "2", "3">>)

\* prefix "zxc" and the name "abcabc", which does not start with it
C25_Witness ==
    /\ Called("convert_env_name")
    /\ arg2 = <<"z", "x", "c">>
    /\ arg = <<"a", "b", "c", "a", "b", "c">>
    /\ out = OkV(<<"a", "b", "c">>)

\* C27: in prefix mode no fetch exists unless the name of every matched
\* secret has been derived and is valid; once the listing is in and some
\* matched secret has an invalid name, the resolution has failed with the
\* validation error, and no fetch was made and none completed.
C27_NamesBeforeFetches ==
    cfg.mode = "prefix" =>
        /\ fetches # <<>> =>
            /\ Len(env_names) = Len(secrets)
            /\ \A i \in 1..Len(secrets) :
                /\ ValidNameSpec(env_names[i])
                /\ env_names[i] = DerivedName(secrets[i])
        /\ AnyNameFails =>
            /\ pc = "failed"
            /\ dl = ErrV("InvalidSecretFormat")
            /\ fetches = <<>>
            /\ arrivals = <<>>

\* two matched secrets, the first with a valid name, the second without
C27_Witness ==
    /\ cfg.mode = "prefix"
    /\ Len(secrets) = 2
    /\ ValidNameSpec(DerivedName(secrets[1]))
    /\ ~ValidNameSpec(DerivedName(secrets[2]))
    /\ pc = "failed"
    /\ fetches = <<>>

(***************************************************************************)
(* The launcher: run-in (download, then run_in_env) and run-with (load_env *)
(* from the artifact, spawn, wait, cleanup), and main's own termination.   *)
(***************************************************************************)
SampleKv == << <<"A", "k1">>, <<"B", "k2">> >>
SampleMasked == << "B" >>
RunOsLists == { <<>>, << <<"A", "e1">>, <<"B", "e2">> >> }
RunFiles ==
    { NoFile, BadFile, JObj(<<>>),
      to_writer(ProcessEnv(OsEnv("Persisted", << <<"A", "e1">> >>), SampleKv, SampleMasked)),
      to_writer(ProcessEnv(OsEnv("Fresh", <<>>), SampleKv, SampleMasked)) }

InitRun ==
    /\ cmd \in {"run_in", "run_with"}
    /\ pc = "start"
    /\ os_vars \in RunOsLists
    /\ proc_env = NoEnv
    /\ env_file \in (IF cmd = "run_with" THEN RunFiles ELSE {NoFile})
    /\ env_map = NoMap
    /\ made_map = NotMade
    /\ os_at_make = <<>>
    /\ cleanup \in (IF cmd = "run_with" THEN BOOLEAN ELSE {FALSE})
    /\ RunIdle
    /\ PureIdle
    /\ CacheIdle
    /\ ResolveIdle

\* run_in: download_env_sync succeeded
DownloadOk ==
    /\ cmd = "run_in"
    /\ pc = "start"
    /\ \E snapshot_env \in BOOLEAN : MakeEnv(SampleKv, SampleMasked, snapshot_env)

\* run_in: download_env_sync failed, map_err(RunInError::LoadError)?
DownloadErr ==
    /\ cmd = "run_in"
    /\ pc = "start"
    /\ ret' = Err("LoadError")
    /\ pc' = "returned"
    /\ UNCHANGED envData
    /\ UNCHANGED <<file_open, child, wait_status, launcher, remove_tried>>
    /\ UNCHANGED resVars
    /\ UNCHANGED pureVars
    /\ UNCHANGED cacheVars

\* a run_with that removes the artifact it could not load
load_env_failed_cleans(c) == c

\* run_with, `load_env(&cfg.env_file)?`: whether the artifact is removed when
\* load_env returned an error; run_with returns at once
load_env_failed(c) == FALSE

\* load_env: fs::File::open fails (no such file, no permission)
OpenEnvFileErr ==
    /\ cmd = "run_with"
    /\ pc = "start"
    /\ ret' = Err("IoError")
    /\ pc' = "returned"
    /\ remove_tried' = load_env_failed(cleanup)
    /\ env_file' = IF load_env_failed(cleanup) THEN NoFile ELSE env_file
    /\ UNCHANGED <<cmd, os_vars, proc_env, env_map, made_map, os_at_make, cleanup>>
    /\ UNCHANGED <<file_open, child, wait_status, launcher>>
    /\ UNCHANGED resVars
    /\ UNCHANGED pureVars
    /\ UNCHANGED cacheVars

\* load_env: from_reader fails; the File is dropped when load_env returns
ReadEnvFileErr ==
    /\ cmd = "run_with"
    /\ pc = "opened"
    /\ ~(env_file.t = "obj" /\ Deserializable(env_file))
    /\ file_open' = drop_file(file_open)
    /\ ret' = Err("LoadError")
    /\ pc' = "returned"
    /\ remove_tried' = load_env_failed(cleanup)
    /\ env_file' = IF load_env_failed(cleanup) THEN NoFile ELSE env_file
    /\ UNCHANGED <<cmd, os_vars, proc_env, env_map, made_map, os_at_make, cleanup>>
    /\ UNCHANGED <<child, wait_status, launcher>>
    /\ UNCHANGED resVars
    /\ UNCHANGED pureVars
    /\ UNCHANGED cacheVars

\* Command::new: a command starts from the environment of its parent
Command_new(os) == MapExtend(EmptyMap, os)

\* a Command whose env_clear keeps the inherited variables
env_clear_keeps(base) == base

\* Command::env_clear: nothing is inherited
env_clear(base) == EmptyMap

\* Command::envs: every pair of the map is set, over what is there
envs(base, m) ==
    [k \in (DOMAIN base) \cup (DOMAIN m) |-> IF k \in DOMAIN m THEN m[k] ELSE base[k]]

\* the environment of the child of Command::new(..).env_clear().envs(&env)
spawn_env(os, m) == envs(env_clear(Command_new(os)), m)

\* Command::new(..).env_clear().envs(&env).spawn()
Spawn ==
    /\ pc = "merged"
    /\ child' = [st |-> "running", status |-> NoStatus, env |-> spawn_env(os_vars, env_map.map)]
    /\ pc' = "spawned"
    /\ UNCHANGED envData
    /\ UNCHANGED <<file_open, wait_status, ret, launcher, remove_tried>>
    /\ UNCHANGED resVars
    /\ UNCHANGED pureVars
    /\ UNCHANGED cacheVars

\* spawn fails (no such executable): map_err(RunError)?
SpawnErr ==
    /\ pc = "merged"
    /\ ret' = Err("RunError")
    /\ pc' = "returned"
    /\ UNCHANGED envData
    /\ UNCHANGED <<file_open, child, wait_status, launcher, remove_tried>>
    /\ UNCHANGED resVars
    /\ UNCHANGED pureVars
    /\ UNCHANGED cacheVars

\* the child ends by itself, with an exit code
ChildExits ==
    /\ child.st = "running"
    /\ \E c \in ChildCodes :
        child' = [child EXCEPT !.st = "exited", !.status = Exited(c)]
    /\ UNCHANGED envVars
    /\ UNCHANGED <<file_open, wait_status, ret, launcher, remove_tried>>
    /\ UNCHANGED resVars
    /\ UNCHANGED pureVars
    /\ UNCHANGED cacheVars

\* the child is ended by a signal: its status has no exit code
ChildKilled ==
    /\ child.st = "running"
    /\ child' = [child EXCEPT !.st = "exited", !.status = Signaled]
    /\ UNCHANGED envVars
    /\ UNCHANGED <<file_open, wait_status, ret, launcher, remove_tried>>
    /\ UNCHANGED resVars
    /\ UNCHANGED pureVars
    /\ UNCHANGED cacheVars

\* child.wait() / wait_with_output() returns once the child has ended
Wait ==
    /\ pc = "spawned"
    /\ child.st = "exited"
    /\ wait_status' = child.status
    /\ pc' = "waited"
    /\ UNCHANGED envData
    /\ UNCHANGED <<file_open, child, ret, launcher, remove_tried>>
    /\ UNCHANGED resVars
    /\ UNCHANGED pureVars
    /\ UNCHANGED cacheVars

\* wait fails: map_err(RunError)?
WaitErr ==
    /\ pc = "spawned"
    /\ ret' = Err("RunError")
    /\ pc' = "returned"
    /\ UNCHANGED envData
    /\ UNCHANGED <<file_open, child, wait_status, launcher, remove_tried>>
    /\ UNCHANGED resVars
    /\ UNCHANGED pureVars
    /\ UNCHANGED cacheVars

\* run_in, after run_in_env returned the status
run_in_exit_lost(st) ==
    IF success(st) THEN process_exit(0) ELSE process_exit(-1)

run_in_exit(st) ==
    IF success(st) THEN process_exit(0)
    ELSE IF has_code(st) THEN process_exit(st.code)
    ELSE process_exit(-1)

RunInExit ==
    /\ cmd = "run_in"
    /\ pc = "waited"
    /\ launcher' = run_in_exit(wait_status)
    /\ pc' = "exited"
    /\ UNCHANGED envData
    /\ UNCHANGED <<file_open, child, wait_status, ret, remove_tried>>
    /\ UNCHANGED resVars
    /\ UNCHANGED pureVars
    /\ UNCHANGED cacheVars

\* run_with: the condition of the cleanup
should_cleanup_always(st, c) == c

should_cleanup(st, c) == success(st) /\ c

\* fs::remove_file(&cfg.env_file)
RemoveEnvFile ==
    /\ cmd = "run_with"
    /\ pc = "waited"
    /\ should_cleanup(wait_status, cleanup)
    /\ remove_tried' = TRUE
    /\ env_file' = NoFile
    /\ pc' = "cleaned"
    /\ UNCHANGED <<cmd, os_vars, proc_env, env_map, made_map, os_at_make, cleanup>>
    /\ UNCHANGED <<file_open, child, wait_status, ret, launcher>>
    /\ UNCHANGED resVars
    /\ UNCHANGED pureVars
    /\ UNCHANGED cacheVars

\* a run_with that goes on when remove_file failed
remove_file_failed_ignored == NoResult

\* fs::remove_file(..).map_err(RunWithError::CleanupError)?, for a removal
\* that failed: run_with returns the error
remove_file_failed == Err("CleanupError")

\* remove_file fails: map_err(CleanupError)?
RemoveEnvFileErr ==
    /\ cmd = "run_with"
    /\ pc = "waited"
    /\ should_cleanup(wait_status, cleanup)
    /\ remove_tried' = TRUE
    /\ ret' = remove_file_failed
    /\ pc' = IF remove_file_failed.done THEN "returned" ELSE "cleaned"
    /\ UNCHANGED envData
    /\ UNCHANGED <<file_open, child, wait_status, launcher>>
    /\ UNCHANGED resVars
    /\ UNCHANGED pureVars
    /\ UNCHANGED cacheVars

SkipCleanup ==
    /\ cmd = "run_with"
    /\ pc = "waited"
    /\ ~should_cleanup(wait_status, cleanup)
    /\ pc' = "cleaned"
    /\ UNCHANGED envData
    /\ UNCHANGED runVars
    /\ UNCHANGED resVars
    /\ UNCHANGED pureVars
    /\ UNCHANGED cacheVars

\* run_with, the final if: exit with the child's code, or return
run_with_finish(st) ==
    IF ~success(st)
    THEN IF has_code(st)
         THEN [exits |-> TRUE, launcher |-> process_exit(st.code), ret |-> NoResult]
         ELSE [exits |-> FALSE, launcher |-> Running, ret |-> Err("Failed")]
    ELSE [exits |-> FALSE, launcher |-> Running, ret |-> Ok]

RunWithFinish ==
    /\ cmd = "run_with"
    /\ pc = "cleaned"
    /\ LET f == run_with_finish(wait_status) IN
        /\ launcher' = f.launcher
        /\ ret' = f.ret
        /\ pc' = IF f.exits THEN "exited" ELSE "returned"
    /\ UNCHANGED envData
    /\ UNCHANGED <<file_open, child, wait_status, remove_tried>>
    /\ UNCHANGED resVars
    /\ UNCHANGED pureVars
    /\ UNCHANGED cacheVars

\* main: the subcommand returned
MainReturns ==
    /\ pc = "returned"
    /\ launcher' = main_returns(ret)
    /\ pc' = "exited"
    /\ UNCHANGED envData
    /\ UNCHANGED <<file_open, child, wait_status, ret, remove_tried>>
    /\ UNCHANGED resVars
    /\ UNCHANGED pureVars
    /\ UNCHANGED cacheVars

NextRun ==
    \/ DownloadOk
    \/ DownloadErr
    \/ OpenEnvFile
    \/ OpenEnvFileErr
    \/ ReadEnvFile
    \/ ReadEnvFileErr
    \/ IntoEnv
    \/ Spawn
    \/ SpawnErr
    \/ ChildExits
    \/ ChildKilled
    \/ Wait
    \/ WaitErr
    \/ RunInExit
    \/ RemoveEnvFile
    \/ RemoveEnvFileErr
    \/ SkipCleanup
    \/ RunWithFinish
    \/ MainReturns

SpecRun == InitRun /\ [][NextRun]_vars

\* the launcher has waited for a child that ended with an exit code
ChildCodeKnown == wait_status.got /\ has_code(wait_status)

\* run-with holds an environment: the artifact was there and has been read
Loaded == cmd = "run_with" /\ proc_env.t = "env"

\* C7 as claimed: once the launcher has ended, its exit code is the exit
\* code of the child it waited for, in the run-in and in the run-with flow.
C7_ExitCodePropagated ==
    (pc = "exited" /\ ChildCodeKnown) => launcher.code = wait_status.code

\* C7 amended: the launcher ends with the exit code c of the child it waited
\* for, except in the run-with flow when c = 0, cleanup was requested and
\* removing the artifact failed: run_with then returns CleanupError and the
\* launcher ends with 1.
C7_ExitCodeUnlessCleanupFails ==
    /\ (pc = "exited" /\ ChildCodeKnown) =>
        launcher.code = (IF ret.err = "CleanupError" THEN 1 ELSE wait_status.code)
    /\ ret.err = "CleanupError" =>
        /\ cmd = "run_with"
        /\ ChildCodeKnown /\ wait_status.code = 0
        /\ cleanup
        /\ remove_tried /\ env_file # NoFile

C7_Witness ==
    /\ cmd = "run_with"
    /\ pc = "exited"
    /\ ChildCodeKnown
    /\ wait_status.code = 10
    /\ launcher.code = 10

\* C8 as claimed: in the run-with flow the artifact is deleted if and only if
\* the child was waited for, exited successfully and cleanup was requested,
\* and never before the child has terminated.
C8_DeletedIff ==
    /\ (Loaded /\ pc = "exited") =>
        (env_file = NoFile <=> (wait_status.got /\ success(wait_status) /\ cleanup))
    /\ (Loaded /\ env_file = NoFile) => child.st = "exited"

\* C8 amended: remove_file is called on the artifact if and only if the child
\* was waited for, exited successfully and cleanup was requested; the
\* artifact is deleted if and only if that call succeeds (when it fails the
\* artifact stays and run_with returns CleanupError); neither happens before
\* the child has terminated and been waited for.
C8_RemoveIff ==
    /\ (Loaded /\ pc = "exited") =>
        /\ remove_tried <=> (wait_status.got /\ success(wait_status) /\ cleanup)
        /\ env_file = NoFile <=> (remove_tried /\ ret.err # "CleanupError")
    /\ (Loaded /\ (remove_tried \/ env_file = NoFile)) =>
        child.st = "exited" /\ wait_status.got

C8_Witness ==
    /\ Loaded
    /\ pc = "exited"
    /\ cleanup
    /\ success(wait_status)
    /\ env_file = NoFile
    /\ launcher.code = 0

\* C11: the environment of the child is exactly the map into_env returned:
\* every pair of the map is set in the child, and no variable of the
\* launcher's environment that the map lacks (a masked one included) is.
C11_ChildEnvIsMap ==
    child.st # "none" =>
        /\ proc_env.t = "env"
        /\ child.env = into_env(proc_env)
        /\ \A n \in DOMAIN child.env :
            /\ ~IsMasked(proc_env.masked, n)
            /\ n \in DOMAIN into_env(proc_env) /\ child.env[n] = into_env(proc_env)[n]
        /\ \A i \in 1..Len(os_vars) :
            os_vars[i][1] \notin DOMAIN into_env(proc_env) => os_vars[i][1] \notin DOMAIN child.env

\* the launcher has B, B is masked, the child runs without B and with the
\* backend's value of A
C11_Witness ==
    /\ child.st = "running"
    /\ InList(os_vars, "B")
    /\ IsMasked(proc_env.masked, "B")
    /\ "B" \notin DOMAIN child.env
    /\ "A" \in DOMAIN child.env /\ child.env["A"] = "k1"

\* C20: in the run-with flow the artifact is opened, read and closed before
\* the child is spawned: no handle on it is open while the child runs.
C20_FileClosedBeforeSpawn ==
    /\ child.st # "none" => ~file_open
    /\ (cmd = "run_with" /\ child.st # "none") => proc_env.t = "env"
    /\ file_open => (cmd = "run_with" /\ pc = "opened")

\* run-with: the artifact was read, the child runs, the handle is closed
C20_Witness ==
    /\ cmd = "run_with"
    /\ env_file.t = "obj"
    /\ proc_env.t = "env"
    /\ child.st = "running"
    /\ ~file_open

\* C28: in the run-with flow, once run_with has returned IoError or
\* LoadError, no child was spawned or waited for and no removal of the
\* artifact was attempted, the artifact that could not be read is still
\* there, and the launcher ends with code 1; and while the artifact is one
\* that cannot be deserialized, no child exists.
C28_LoadFailsBeforeSpawn ==
    cmd = "run_with" =>
        /\ (ret.done /\ ret.err \in {"IoError", "LoadError"}) =>
            /\ child = NoChild
            /\ ~wait_status.got
            /\ ~remove_tried
            /\ ret.err = "LoadError" => env_file.t # "missing"
            /\ launcher.exited => launcher.code = 1
        /\ (~remove_tried /\ ~(env_file.t = "obj" /\ Deserializable(env_file))) =>
            child = NoChild

\* cleanup requested, an artifact that is not a ProcessEnv document
C28_Witness ==
    /\ cmd = "run_with"
    /\ cleanup
    /\ env_file.t = "bad"
    /\ ret = Err("LoadError")
    /\ launcher.exited

\* the removal of the artifact was attempted and the artifact is still there
RemoveFailed == remove_tried /\ env_file.t # "missing"

\* C29: in the run-with flow, once run_with has returned after a child that
\* exited successfully: with cleanup requested the removal was attempted;
\* when it failed run_with returned CleanupError and the launcher ends with
\* code 1; when it succeeded, or cleanup was not requested, run_with
\* returned Ok and the launcher ends with code 0.
C29_CleanupErrorOrOk ==
    (cmd = "run_with" /\ wait_status.got /\ success(wait_status) /\ ret.done) =>
        /\ cleanup = remove_tried
        /\ (cleanup /\ RemoveFailed) =>
            /\ ret = Err("CleanupError")
            /\ launcher.exited => launcher.code = 1
        /\ (~cleanup \/ ~RemoveFailed) =>
            /\ ret = Ok
            /\ launcher.exited => launcher.code = 0

C29_Witness ==
    /\ cmd = "run_with"
    /\ cleanup
    /\ wait_status = Exited(0)
    /\ RemoveFailed
    /\ ret = Err("CleanupError")
    /\ launcher.exited
    /\ launcher.diag = "CleanupError"

C9_Witness ==
    /\ pc = "exited"
    /\ child.st = "none"
    /\ ret.err = "RunError"
    /\ launcher.code = 1

\* the exit code of the launcher when the child was ended by a signal
SentinelCode(c) ==
    IF c = "run_in" THEN run_in_exit(Signaled).code
    ELSE main_returns(run_with_finish(Signaled).ret).code

\* C10: when the child ends without an exit code the launcher ends with a
\* non-zero code, and that code is none of the codes with which it
\* propagates the failure of a child that exited with a code.
C10_SentinelDistinct ==
    /\ (pc = "exited" /\ wait_status.got /\ wait_status.signaled) =>
        launcher.code # 0 /\ launcher.code = SentinelCode(cmd)
    /\ (pc = "exited" /\ ChildCodeKnown /\ wait_status.code # 0) =>
        launcher.code # SentinelCode(cmd)

C10_Witness ==
    /\ cmd = "run_in"
    /\ pc = "exited"
    /\ wait_status.got /\ wait_status.signaled
    /\ launcher.code = 255

(***************************************************************************)
(* The cache command: run_cache resolves the environment, chooses the      *)
(* output file, writes the artifact and prints its path.                   *)
(***************************************************************************)

\* the random part of a temporary file's name
TempNames == {"1", "2"}

\* tempfile::Builder::tempfile_in(d): the path of the name in directory d
temp_path(d, name) ==
    IF d = "D" THEN (IF name = "1" THEN "D1" ELSE "D2")
    ELSE (IF name = "1" THEN "T1" ELSE "T2")

\* Builder::tempfile(): the system temp location
temp_dir == "T"

Direct(p) == [t |-> "Direct", path |-> p]
Temp(p) == [t |-> "Temp", path |-> p]

\* a variant that looks at the output directory first
get_output_file_dir_first(c, name) ==
    IF c.output_dir # "none" THEN Temp(temp_path(c.output_dir, name))
    ELSE IF c.output_file # "none" THEN Direct(c.output_file)
    ELSE Temp(temp_path(temp_dir, name))

\* get_output_file: the configured file, else a temporary file in the
\* configured directory, else a temporary file in the system temp location
get_output_file(c, name) ==
    IF c.output_file # "none" THEN Direct(c.output_file)
    ELSE IF c.output_dir # "none" THEN Temp(temp_path(c.output_dir, name))
    ELSE Temp(temp_path(temp_dir, name))

\* a variant that leaves the temporary file behind when the write fails
store_env_keeps_temp(h, d, wrote, kept) ==
    IF wrote /\ (h.t = "Direct" \/ kept) THEN [d EXCEPT ![h.path] = "env"]
    ELSE [d EXCEPT ![h.path] = "partial"]

\* store_env, its effect on the file system: a Direct file holds what was
\* written; a NamedTempFile is removed when it is dropped, which is what
\* happens unless to_writer and keep() both succeeded
store_env(h, d, wrote, kept) ==
    IF h.t = "Direct"
    THEN [d EXCEPT ![h.path] = IF wrote THEN "env" ELSE "partial"]
    ELSE [d EXCEPT ![h.path] = IF wrote /\ kept THEN "env" ELSE "missing"]

\* store_env, its result
store_env_result(h, wrote, kept) ==
    IF ~wrote THEN Err("SerializationError")
    ELSE IF h.t = "Temp" /\ ~kept THEN Err("IoError")
    ELSE Ok

\* the files there before the command runs
DiskAtStart(c) == [p \in Paths |-> IF p \in c.existing THEN "old" ELSE "missing"]

CacheOutputs ==
    [output_file : {"none", "F"}, output_dir : {"none", "D"},
     existing : SUBSET {"F", "D1", "T1"}]

InitCache ==
    /\ cmd = "cache"
    /\ pc = "start"
    /\ os_vars \in RunOsLists
    /\ proc_env = NoEnv
    /\ env_file = NoFile
    /\ env_map = NoMap
    /\ made_map = NotMade
    /\ os_at_make = <<>>
    /\ cleanup = FALSE
    /\ RunIdle
    /\ PureIdle
    /\ ResolveIdle
    /\ cache_in \in CacheOutputs
    /\ disk = DiskAtStart(cache_in)
    /\ handle = NoHandle
    /\ printed = "none"

\* run_cache: the environment was resolved
PrepareEnv ==
    /\ cmd = "cache"
    /\ pc = "start"
    /\ \E snapshot_env \in BOOLEAN : MakeEnv(SampleKv, SampleMasked, snapshot_env)

\* run_cache: resolution failed, map_err(CacheError::LoadError)?
PrepareEnvErr ==
    /\ cmd = "cache"
    /\ pc = "start"
    /\ ret' = Err("LoadError")
    /\ pc' = "returned"
    /\ UNCHANGED envData
    /\ UNCHANGED <<file_open, child, wait_status, launcher, remove_tried>>
    /\ UNCHANGED resVars
    /\ UNCHANGED pureVars
    /\ UNCHANGED cacheVars

\* run_cache: get_output_file created (or truncated) the file; a temporary
\* file is created under a name that is not taken
GetOutputFile ==
    /\ cmd = "cache"
    /\ pc = "resolved"
    /\ \E name \in TempNames :
        LET h == get_output_file(cache_in, name) IN
        /\ h.t = "Temp" => disk[h.path] = "missing"
        /\ handle' = h
        /\ disk' = [disk EXCEPT ![h.path] = "empty"]
    /\ pc' = "opened"
    /\ UNCHANGED envData
    /\ UNCHANGED runVars
    /\ UNCHANGED resVars
    /\ UNCHANGED pureVars
    /\ UNCHANGED <<cache_in, printed>>

\* run_cache: File::create or tempfile failed, map_err(CacheError::IoError)?
GetOutputFileErr ==
    /\ cmd = "cache"
    /\ pc = "resolved"
    /\ ret' = Err("IoError")
    /\ pc' = "returned"
    /\ UNCHANGED envData
    /\ UNCHANGED <<file_open, child, wait_status, launcher, remove_tried>>
    /\ UNCHANGED resVars
    /\ UNCHANGED pureVars
    /\ UNCHANGED cacheVars

\* run_cache: store_env wrote the artifact and returned its path
CacheStore ==
    /\ cmd = "cache"
    /\ pc = "opened"
    /\ disk' = store_env(handle, disk, TRUE, TRUE)
    /\ env_file' = to_writer(proc_env)
    /\ pc' = "written"
    /\ UNCHANGED <<cmd, os_vars, proc_env, env_map, made_map, os_at_make, cleanup>>
    /\ UNCHANGED runVars
    /\ UNCHANGED resVars
    /\ UNCHANGED pureVars
    /\ UNCHANGED <<cache_in, handle, printed>>

\* run_cache: store_env failed, in to_writer or in keep()
CacheStoreErr ==
    /\ cmd = "cache"
    /\ pc = "opened"
    /\ \E wrote, kept \in BOOLEAN :
        /\ ~store_env_result(handle, wrote, kept).ok
        /\ disk' = store_env(handle, disk, wrote, kept)
        /\ ret' = store_env_result(handle, wrote, kept)
    /\ pc' = "returned"
    /\ UNCHANGED envData
    /\ UNCHANGED <<file_open, child, wait_status, launcher, remove_tried>>
    /\ UNCHANGED resVars
    /\ UNCHANGED pureVars
    /\ UNCHANGED <<cache_in, handle, printed>>

\* run_cache: println!("{}", path.display()); Ok(())
PrintPath ==
    /\ cmd = "cache"
    /\ pc = "written"
    /\ printed' = handle.path
    /\ ret' = Ok
    /\ pc' = "returned"
    /\ UNCHANGED envData
    /\ UNCHANGED <<file_open, child, wait_status, launcher, remove_tried>>
    /\ UNCHANGED resVars
    /\ UNCHANGED pureVars
    /\ UNCHANGED <<cache_in, disk, handle>>

NextCache ==
    \/ PrepareEnv
    \/ PrepareEnvErr
    \/ GetOutputFile
    \/ GetOutputFileErr
    \/ CacheStore
    \/ CacheStoreErr
    \/ PrintPath
    \/ MainReturns

SpecCache == InitCache /\ [][NextCache]_vars

\* every path but the chosen one holds what it held at the start
OthersUntouched(chosen) ==
    \A p \in Paths \ {chosen} : disk[p] = DiskAtStart(cache_in)[p]

\* C26: once the cache command has its output file: with an output file
\* configured it is that very path, whatever output directory is configured,
\* and no other path is touched; with none configured it is a temporary file
\* under a name not there before, in the configured output directory if
\* there is one and in the system temp location otherwise; and the artifact
\* is only ever written to the chosen path.
C26_OutputSelection ==
    handle.t # "none" =>
        /\ cache_in.output_file # "none" => handle = Direct(cache_in.output_file)
        /\ cache_in.output_file = "none" =>
            /\ handle.t = "Temp"
            /\ handle.path \notin cache_in.existing
            /\ dir_of(handle.path) =
                 (IF cache_in.output_dir # "none" THEN cache_in.output_dir ELSE temp_dir)
        /\ OthersUntouched(handle.path)
        /\ \A p \in Paths : disk[p] = "env" => p = handle.path

C26_Witness ==
    /\ cache_in.output_file = "F"
    /\ cache_in.output_dir = "D"
    /\ "D1" \in cache_in.existing
    /\ disk["F"] = "env"
    /\ printed = "F"

\* C30: the cache command has no output file before the environment is
\* resolved; the printed path names a file that holds the written artifact of
\* the resolved environment; when resolution fails the file system is as it
\* was at the start and nothing is printed; when storing to a temporary file
\* fails the temporary file is gone.
C30_ResolveWritePrint ==
    /\ handle.t # "none" => made_map.set
    /\ ~made_map.set => disk = DiskAtStart(cache_in)
    /\ printed # "none" =>
        /\ disk[printed] = "env"
        /\ env_file = to_writer(made_map.env)
    /\ (ret.done /\ ret.err = "LoadError") =>
        /\ disk = DiskAtStart(cache_in)
        /\ printed = "none"
    /\ (handle.t = "Temp" /\ ret.done /\ ~ret.ok) =>
        /\ disk[handle.path] = "missing"
        /\ printed = "none"

C30_Witness ==
    /\ handle.t = "Temp"
    /\ ret = Err("SerializationError")
    /\ "D1" \in cache_in.existing
    /\ launcher.exited

====
